---------------------------- MODULE Spec2Model ----------------------------
(***************************************************************************)
(* A model of the tiering and reward-economics engine of the Spoonity      *)
(* rewards calculator (src/app/spoonity-rewards-calculator.tsx).           *)
(*                                                                         *)
(* The React component is modelled as a state machine: its useState cells  *)
(* are the variables, every event handler, asynchronous callback and       *)
(* passive effect is an action.  JavaScript numbers are modelled as exact  *)
(* rationals [n, d]; a zero denominator stands for the non-finite values   *)
(* (1/0 is Infinity, 0/0 is NaN), so that a division by zero is a value of *)
(* the model exactly as it is a value of the program.                      *)
(***************************************************************************)
EXTENDS Integers, Sequences, FiniteSets, Bags, TLC

VARIABLES
    isLoggedIn,   \* useState(false), line 220
    activeTab,    \* useState("setup"), line 223
    config,       \* useState({...}), lines 224-230
    items,        \* useState<Item[]>([]), line 231
    tiers,        \* useState<Tier[]>([]), line 232
    results,      \* useState<Result[]>([]), line 233
    uploads,      \* FileReader.onload callbacks that have not run yet: the
                  \* config each one closed over when the upload started
    effectDeps,   \* dependency values of the tier effect at its last run
    uneditedTiers, \* history: the tier set as it would be had no
                  \* updateTierPoints call been made (the generator does
                  \* not read the tier set: both runs generate the same)
    tiersFrom,    \* history: where the tier set comes from: "items" (the
                  \* generator, on the enabled items), "withConfig" (the
                  \* generator, on a payback change), "config" (generated,
                  \* pointsPerDollar or the payback rate changed since),
                  \* "edit" (a tier edit since it was generated), "stale"
                  \* (the catalog was replaced under it), "none" (cleared)
    regenerated,  \* history: the tier generator ran since the last calculation
    calculatedBy  \* history: the calculation that ran last, "calculateResults"
                  \* or "calculateResultsEnhanced", while items, tiers and
                  \* config are as that run left them; "" otherwise

vars == <<isLoggedIn, activeTab, config, items, tiers, results, uploads,
          effectDeps, uneditedTiers, tiersFrom, regenerated, calculatedBy>>

-----------------------------------------------------------------------------
(* JavaScript numbers as rationals.                                        *)

Abs(i) == IF i < 0 THEN -i ELSE i

Sign(i) == IF i < 0 THEN -1 ELSE IF i > 0 THEN 1 ELSE 0

RECURSIVE GCD(_, _)
GCD(a, b) == IF b = 0 THEN a ELSE GCD(b, a % b)

\* The number n/d in lowest terms with a positive denominator; n/0 is
\* Infinity, -Infinity or NaN by the sign of n.
Q(n, d) ==
    IF d = 0 THEN [n |-> Sign(n), d |-> 0]
    ELSE LET g == GCD(Abs(n), Abs(d))
         IN  [n |-> Sign(d) * (n \div g), d |-> Abs(d) \div g]

Num(i) == Q(i, 1)

Infinity == Q(1, 0)

NaN == Q(0, 0)

IsNaN(a) == a.d = 0 /\ a.n = 0

IsFinite(a) == a.d # 0

IsInteger(a) == a.d = 1

\* a + b
Plus(a, b) ==
    IF a.d = 0 /\ b.d = 0
    THEN (IF a.n = b.n THEN a ELSE NaN)
    ELSE Q(a.n * b.d + b.n * a.d, a.d * b.d)

\* a * b
Times(a, b) == Q(a.n * b.n, a.d * b.d)

\* a / b
Over(a, b) == Q(a.n * b.d * (IF b.n < 0 THEN -1 ELSE 1), a.d * Abs(b.n))

\* a - b
Minus(a, b) == Plus(a, [n |-> -b.n, d |-> b.d])

\* a < b, a <= b, a === b: every comparison with NaN is false
Lt(a, b) == ~IsNaN(a) /\ ~IsNaN(b) /\ a # b /\ a.n * b.d < b.n * a.d

Le(a, b) == ~IsNaN(a) /\ ~IsNaN(b) /\ (a = b \/ a.n * b.d < b.n * a.d)

StrictEq(a, b) == ~IsNaN(a) /\ a = b

\* Math.abs
MathAbs(a) == [n |-> Abs(a.n), d |-> a.d]

\* Math.round: the nearest integer, halves towards +Infinity; a non-finite
\* argument is returned as it is.
MathRound(a) ==
    IF a.d = 0 THEN a ELSE Num((2 * a.n + a.d) \div (2 * a.d))

\* Number.prototype.toFixed(k) of a non-negative number, as the number the
\* digits denote (10^k passed as pow).
ToFixed(a, pow) ==
    IF a.d = 0 THEN a ELSE Q((2 * a.n * pow + a.d) \div (2 * a.d), pow)

\* x || 0
OrZero(a) == IF IsNaN(a) \/ a = Num(0) THEN Num(0) ELSE a

-----------------------------------------------------------------------------
(* Sequences.                                                              *)

Range(s) == {s[i] : i \in DOMAIN s}

\* Array.prototype.slice(from, to), 0-based, to exclusive
Slice(s, from, to) == SubSeq(s, from + 1, to)

\* Array.prototype.sort is stable: an element goes after the elements that
\* do not compare greater.  Comparator (a, b) => a.retailPrice - b.retailPrice
RECURSIVE InsertByPrice(_, _)
InsertByPrice(s, e) ==
    IF s = <<>> THEN <<e>>
    ELSE IF Lt(e.retailPrice, Head(s).retailPrice) THEN <<e>> \o s
         ELSE <<Head(s)>> \o InsertByPrice(Tail(s), e)

RECURSIVE SortByPrice(_)
SortByPrice(s) ==
    IF s = <<>> THEN <<>>
    ELSE InsertByPrice(SortByPrice(SubSeq(s, 1, Len(s) - 1)), s[Len(s)])

\* Comparator (a, b) => a.pointCost - b.pointCost
RECURSIVE InsertByPointCost(_, _)
InsertByPointCost(s, e) ==
    IF s = <<>> THEN <<e>>
    ELSE IF Lt(e.pointCost, Head(s).pointCost) THEN <<e>> \o s
         ELSE <<Head(s)>> \o InsertByPointCost(Tail(s), e)

RECURSIVE SortByPointCost(_)
SortByPointCost(s) ==
    IF s = <<>> THEN <<>>
    ELSE InsertByPointCost(SortByPointCost(SubSeq(s, 1, Len(s) - 1)), s[Len(s)])

\* reduce((sum, item) => sum + item.retailPrice, 0)
RECURSIVE SumPrices(_)
SumPrices(s) ==
    IF s = <<>> THEN Num(0)
    ELSE Plus(SumPrices(SubSeq(s, 1, Len(s) - 1)), s[Len(s)].retailPrice)

\* Math.ceil(a / b) of two non-negative integers, b > 0
CeilDiv(a, b) == (a + b - 1) \div b

Min(a, b) == IF a < b THEN a ELSE b

-----------------------------------------------------------------------------
(* The program's data.                                                     *)

\* Value of the config state cell after construction and after a reset
DefaultConfig ==
    [pointsPerDollar    |-> Num(100),
     defaultPayback     |-> Num(7),
     cogsMargin         |-> Num(30),
     currencyName       |-> "Points",
     defaultPaybackRate |-> Num(5)]

\* The ids of the tab bar
TabIds == {"setup", "items", "tiers", "results", "results-tiers"}

\* A catalog row that survived parsing.  Math.random() ids are distinct
\* within a catalog; the row number stands for them.  The name is carried
\* along untouched by every operation and is left out.
NewItem(i, price) ==
    [id |-> i, retailPrice |-> price, included |-> TRUE, enabled |-> TRUE]

\* Tier names: `Tier ${k}`, `${n} Points` and "Default"
TierLabel(k) == [label |-> "Tier", num |-> Num(k)]

PointsLabel(n) == [label |-> "Points", num |-> n]

DefaultLabel == [label |-> "Default", num |-> Num(0)]

IsEnabled(item) == item.enabled

IsIncluded(item) == item.included

\* items.filter((item) => item.enabled)
EnabledOf(its) == SelectSeq(its, IsEnabled)

\* items.filter((item) => item.included)
IncludedOf(its) == SelectSeq(its, IsIncluded)

-----------------------------------------------------------------------------
(* Tier generation.                                                        *)

\* roundToNiceNumber cutting down to the multiple below
roundToNiceNumber_floor(points) ==
    LET Floor(a) == Num(a.n \div a.d)
    IN  IF Le(Num(10000), points) THEN Times(Floor(Over(points, Num(5000))), Num(5000))
        ELSE IF Le(Num(5000), points) THEN Times(Floor(Over(points, Num(1000))), Num(1000))
        ELSE IF Le(Num(1000), points) THEN Times(Floor(Over(points, Num(500))), Num(500))
        ELSE IF Le(Num(500), points) THEN Times(Floor(Over(points, Num(100))), Num(100))
        ELSE Times(Floor(Over(points, Num(50))), Num(50))

\* Round point cost to nice round numbers for tier names
roundToNiceNumber(points) ==
    IF Le(Num(10000), points) THEN Times(MathRound(Over(points, Num(5000))), Num(5000))
    ELSE IF Le(Num(5000), points) THEN Times(MathRound(Over(points, Num(1000))), Num(1000))
    ELSE IF Le(Num(1000), points) THEN Times(MathRound(Over(points, Num(500))), Num(500))
    ELSE IF Le(Num(500), points) THEN Times(MathRound(Over(points, Num(100))), Num(100))
    ELSE Times(MathRound(Over(points, Num(50))), Num(50))

\* avgPrice / (rate / 100), then Math.round(customerSpendRequired * pointsPerDollar)
SuggestedPointCost(avgPrice, rate, pointsPerDollar) ==
    LET customerSpendRequired == Over(avgPrice, Over(rate, Num(100)))
    IN  MathRound(Times(customerSpendRequired, pointsPerDollar))

\* The body of the generator's loop for the non-empty slice tierItems of
\* tier i (0-based), under the config cfg the generator reads.  priceRange
\* is the two prices formatted and is left out.  manual is history: an
\* updateTierPoints call wrote the tier's suggestedPointCost since the tier
\* was generated.
TierOfSlice(i, tierItems, cfg) ==
    LET minPrice   == tierItems[1].retailPrice
        maxPrice   == tierItems[Len(tierItems)].retailPrice
        avgPrice   == Over(SumPrices(tierItems), Num(Len(tierItems)))
        totalValue == SumPrices(tierItems)
    IN  [id                 |-> i + 1,
         name               |-> TierLabel(i + 1),
         minPrice           |-> minPrice,
         maxPrice           |-> maxPrice,
         avgPrice           |-> avgPrice,
         itemCount          |-> Len(tierItems),
         totalValue         |-> totalValue,
         suggestedPointCost |-> SuggestedPointCost(avgPrice, cfg.defaultPaybackRate,
                                                   cfg.pointsPerDollar),
         items              |-> tierItems,
         paybackRate        |-> cfg.defaultPaybackRate,
         manual             |-> FALSE]

\* Iterations i..4 of the loop `for (let i = 0; i < 5; i++)`: the tiers
\* pushed, an empty slice being skipped
RECURSIVE TierLoop(_, _, _, _)
TierLoop(i, sortedItems, tierSize, cfg) ==
    IF i >= 5 THEN <<>>
    ELSE LET startIndex == i * tierSize
             endIndex   == Min(startIndex + tierSize, Len(sortedItems))
             tierItems  == Slice(sortedItems, startIndex, endIndex)
             rest       == TierLoop(i + 1, sortedItems, tierSize, cfg)
         IN  IF Len(tierItems) = 0 THEN rest
             ELSE <<TierOfSlice(i, tierItems, cfg)>> \o rest

\* The generator with Math.floor in place of Math.ceil in the tier size
generateAutomaticTiers_floor(itemsData, cfg) ==
    IF Len(itemsData) = 0 THEN <<>>
    ELSE LET sortedItems == SortByPrice(itemsData)
             tierSize    == Len(sortedItems) \div 5
         IN  TierLoop(0, sortedItems, tierSize, cfg)

\* generateAutomaticTiers(itemsData): the value it passes to setTiers.  cfg
\* is the config state of the render whose closure is running.
generateAutomaticTiers(itemsData, cfg) ==
    IF Len(itemsData) = 0 THEN <<>>
    ELSE LET sortedItems == SortByPrice(itemsData)
             tierSize    == CeilDiv(Len(sortedItems), 5)
         IN  TierLoop(0, sortedItems, tierSize, cfg)

\* generateAutomaticTiersWithConfig(itemsData, configToUse)
generateAutomaticTiersWithConfig(itemsData, configToUse) ==
    IF Len(itemsData) = 0 THEN <<>>
    ELSE LET sortedItems == SortByPrice(itemsData)
             tierSize    == CeilDiv(Len(sortedItems), 5)
         IN  TierLoop(0, sortedItems, tierSize, configToUse)

-----------------------------------------------------------------------------
(* The tier effect: useEffect(..., [config.defaultPayback,                 *)
(* config.pointsPerDollar, tiers.length]).                                 *)

\* The dependency array of the current render
CurrentDeps == <<config.defaultPayback, config.pointsPerDollar, Len(tiers)>>

\* React runs the effect after a commit whose dependency values differ from
\* those of the commit before.
EffectPending == CurrentDeps # effectDeps

\* The function the effect maps over currentTiers
EffectTier(tier) ==
    LET upper == IF tier.maxPrice = Infinity
                 THEN Times(tier.minPrice, Num(2))
                 ELSE tier.maxPrice
        newSuggestedPointCost ==
            MathRound(Times(Over(Over(Plus(tier.minPrice, upper), Num(2)),
                                 Over(config.defaultPayback, Num(100))),
                            config.pointsPerDollar))
    IN  [tier EXCEPT !.name = PointsLabel(roundToNiceNumber(newSuggestedPointCost)),
                     !.paybackRate = config.defaultPayback,
                     !.suggestedPointCost = newSuggestedPointCost]

\* calculatedBy after a step that is not a calculation
StillCalculatedBy ==
    IF UNCHANGED <<items, tiers, config>> THEN calculatedBy ELSE ""

\* The effect's run.  It is a passive effect: React flushes it before the
\* next event is handled, which the other actions state as ~EffectPending.
RunEffect ==
    /\ EffectPending
    /\ effectDeps' = CurrentDeps
    /\ tiers' = IF Len(tiers) > 0
                THEN [i \in DOMAIN tiers |-> EffectTier(tiers[i])]
                ELSE tiers
    /\ uneditedTiers' = IF Len(tiers) > 0
                        THEN [i \in DOMAIN uneditedTiers |-> EffectTier(uneditedTiers[i])]
                        ELSE uneditedTiers
    /\ UNCHANGED <<isLoggedIn, activeTab, config, items, results, uploads,
                   tiersFrom, regenerated>>
    /\ calculatedBy' = StillCalculatedBy

-----------------------------------------------------------------------------
(* Per-item calculation.                                                   *)

\* Array.prototype.find: the index of the first element that satisfies the
\* test, 0 when there is none; passes[i] is the test's value on element i
FirstIndex(passes) ==
    IF \E i \in DOMAIN passes : passes[i]
    THEN CHOOSE i \in DOMAIN passes : passes[i] /\ \A j \in 1..(i - 1) : ~passes[j]
    ELSE 0

\* tiers.reduce((closest, current) => ...): the tier whose avgPrice is
\* closest to the price, the earlier one when two are as close
RECURSIVE ClosestTier(_, _)
ClosestTier(ts, price) ==
    IF Len(ts) = 1 THEN ts[1]
    ELSE LET closest     == ClosestTier(SubSeq(ts, 1, Len(ts) - 1), price)
             current     == ts[Len(ts)]
             closestDiff == MathAbs(Minus(OrZero(closest.avgPrice), price))
             currentDiff == MathAbs(Minus(OrZero(current.avgPrice), price))
         IN  IF Lt(currentDiff, closestDiff) THEN current ELSE closest

\* The tier calculateResultsEnhanced assigns to an item
AssignedTierEnhanced(item) ==
    LET InRange(tier) == /\ Le(tier.minPrice, item.retailPrice)
                         /\ Le(item.retailPrice, tier.maxPrice)
        k == FirstIndex([i \in DOMAIN tiers |-> InRange(tiers[i])])
    IN  IF k # 0 THEN tiers[k]
        ELSE IF Len(tiers) > 0 THEN ClosestTier(tiers, item.retailPrice)
        ELSE [id                 |-> 0,
              name               |-> DefaultLabel,
              suggestedPointCost |->
                  SuggestedPointCost(item.retailPrice, config.defaultPaybackRate,
                                     config.pointsPerDollar),
              avgPrice           |-> item.retailPrice,
              minPrice           |-> Num(0),
              maxPrice           |-> Infinity,
              paybackRate        |-> config.defaultPaybackRate]

\* The result calculateResultsEnhanced computes for one enabled item.
\* tierId is history: the id of the tier assigned, which the program does
\* not keep.
ResultEnhanced(item) ==
    LET assignedTier          == AssignedTierEnhanced(item)
        customerSpendRequired == Over(item.retailPrice,
                                      Over(config.defaultPaybackRate, Num(100)))
        pointCost             == MathRound(Times(customerSpendRequired,
                                                 config.pointsPerDollar))
        effectiveCost         == item.retailPrice
        profitMargin          == Over(Minus(Num(100), config.cogsMargin), Num(100))
        profitFromSpend       == Times(customerSpendRequired, profitMargin)
        profitImpact          == Times(Over(effectiveCost, profitFromSpend), Num(100))
    IN  [id                    |-> item.id,
         retailPrice           |-> item.retailPrice,
         included              |-> item.included,
         enabled               |-> item.enabled,
         tier                  |-> assignedTier.name,
         tierSuggestedCost     |-> assignedTier.suggestedPointCost,
         tierPayback           |-> config.defaultPaybackRate,
         pointCost             |-> pointCost,
         customerSpendRequired |-> customerSpendRequired,
         effectiveCost         |-> effectiveCost,
         profitImpact          |-> profitImpact,
         profitFromSpend       |-> profitFromSpend,
         tierId                |-> assignedTier.id]

\* calculateResults taking the last tier whose range holds the price
AssignedTier_lastMatch(item) ==
    LET InRange(t) == /\ Le(t.minPrice, item.retailPrice)
                      /\ (t.maxPrice = Infinity \/ Le(item.retailPrice, t.maxPrice))
        matches == {i \in DOMAIN tiers : InRange(tiers[i])}
    IN  IF matches # {}
        THEN tiers[CHOOSE i \in matches : \A j \in matches : j <= i]
        ELSE tiers[Len(tiers)]

\* The tier calculateResults assigns to an item (tiers is not empty)
AssignedTier(item) ==
    LET InRange(t) == /\ Le(t.minPrice, item.retailPrice)
                      /\ (t.maxPrice = Infinity \/ Le(item.retailPrice, t.maxPrice))
        k == FirstIndex([i \in DOMAIN tiers |-> InRange(tiers[i])])
    IN  IF k # 0 THEN tiers[k] ELSE tiers[Len(tiers)]

\* calculateResults dividing by the configured payback rate while it
\* records the tier's
ResultOf_configuredPayback(item) ==
    LET tier                  == AssignedTier(item)
        paybackRateDecimal    == Over(config.defaultPaybackRate, Num(100))
        customerSpendRequired == Over(item.retailPrice, paybackRateDecimal)
        pointCost             == MathRound(Times(customerSpendRequired,
                                                 config.pointsPerDollar))
        effectiveCost         == item.retailPrice
        profitMargin          == Over(config.cogsMargin, Num(100))
        profitFromSpend       == Times(customerSpendRequired, profitMargin)
        netBenefit            == Minus(profitFromSpend, effectiveCost)
        profitImpact          == Times(Over(effectiveCost, profitFromSpend), Num(100))
    IN  [id                    |-> item.id,
         retailPrice           |-> item.retailPrice,
         included              |-> item.included,
         enabled               |-> item.enabled,
         tier                  |-> tier.name,
         tierSuggestedCost     |-> tier.suggestedPointCost,
         tierPayback           |-> tier.paybackRate,
         pointCost             |-> pointCost,
         customerSpendRequired |-> customerSpendRequired,
         effectiveCost         |-> effectiveCost,
         profitImpact          |-> profitImpact,
         netBenefit            |-> netBenefit,
         profitFromSpend       |-> profitFromSpend,
         tierId                |-> tier.id]

\* The result calculateResults computes for one included item
ResultOf(item) ==
    LET tier                  == AssignedTier(item)
        paybackRateDecimal    == Over(tier.paybackRate, Num(100))
        customerSpendRequired == Over(item.retailPrice, paybackRateDecimal)
        pointCost             == MathRound(Times(customerSpendRequired,
                                                 config.pointsPerDollar))
        effectiveCost         == item.retailPrice
        profitMargin          == Over(config.cogsMargin, Num(100))
        profitFromSpend       == Times(customerSpendRequired, profitMargin)
        netBenefit            == Minus(profitFromSpend, effectiveCost)
        profitImpact          == Times(Over(effectiveCost, profitFromSpend), Num(100))
    IN  [id                    |-> item.id,
         retailPrice           |-> item.retailPrice,
         included              |-> item.included,
         enabled               |-> item.enabled,
         tier                  |-> tier.name,
         tierSuggestedCost     |-> tier.suggestedPointCost,
         tierPayback           |-> tier.paybackRate,
         pointCost             |-> pointCost,
         customerSpendRequired |-> customerSpendRequired,
         effectiveCost         |-> effectiveCost,
         profitImpact          |-> profitImpact,
         netBenefit            |-> netBenefit,
         profitFromSpend       |-> profitFromSpend,
         tierId                |-> tier.id]

\* enabledItems.map(...) of calculateResultsEnhanced
CalculatedResultsEnhanced ==
    LET enabledItems == EnabledOf(items)
    IN  [i \in DOMAIN enabledItems |-> ResultEnhanced(enabledItems[i])]

\* calculateResults adding its rows to the results there are
CalculatedResults_appending ==
    LET includedItems == IncludedOf(items)
    IN  SortByPointCost(results \o
                        [i \in DOMAIN includedItems |-> ResultOf(includedItems[i])])

\* includedItems.map(...) of calculateResults, then sorted by point cost
CalculatedResults ==
    LET includedItems == IncludedOf(items)
    IN  SortByPointCost([i \in DOMAIN includedItems |-> ResultOf(includedItems[i])])

-----------------------------------------------------------------------------
(* The tier-based (live) variant: a row of the results-tiers table and a   *)
(* row of the tier CSV, computed from a result and the current tiers.      *)

\* tiers.find((tier) => tier.name === item.tier): its index, 0 for undefined
CurrentTierIndex(item) ==
    LET SameName(tier) == tier.name = item.tier
    IN  FirstIndex([i \in DOMAIN tiers |-> SameName(tiers[i])])

\* A row of the results-tiers table (lines 1823-1911)
TierViewRow(item) ==
    LET k                   == CurrentTierIndex(item)
        currentTierPoints   == IF k # 0 THEN tiers[k].suggestedPointCost
                               ELSE OrZero(item.tierSuggestedCost)
        tierCustomerSpend   == Over(currentTierPoints, config.pointsPerDollar)
        profitMargin        == Over(Minus(Num(100), config.cogsMargin), Num(100))
        profitFromTierSpend == Times(tierCustomerSpend, profitMargin)
        tierProfitImpact    == IF Lt(Num(0), tierCustomerSpend)
                               THEN Times(Over(item.retailPrice, profitFromTierSpend),
                                          Num(100))
                               ELSE Num(0)
    IN  [id                  |-> item.id,
         tier                |-> item.tier,
         currentTierPoints   |-> currentTierPoints,
         tierCustomerSpend   |-> tierCustomerSpend,
         profitFromTierSpend |-> profitFromTierSpend,
         tierProfitImpact    |-> tierProfitImpact,
         spendShown          |-> ToFixed(tierCustomerSpend, 100),
         impactShown         |-> IF Lt(Num(0), tierProfitImpact)
                                 THEN ToFixed(tierProfitImpact, 10)
                                 ELSE NaN,
         edited              |-> k # 0 /\ ~StrictEq(currentTierPoints,
                                                    OrZero(item.tierSuggestedCost))]

\* downloadTierCSV taking the COGS margin as the profit margin, as
\* calculateResults does
TierCsvRow_cogsAsMargin(item) ==
    LET k                   == CurrentTierIndex(item)
        currentTierPoints   == IF k # 0 THEN tiers[k].suggestedPointCost
                               ELSE OrZero(item.tierSuggestedCost)
        tierCustomerSpend   == Over(currentTierPoints, config.pointsPerDollar)
        profitMargin        == Over(config.cogsMargin, Num(100))
        profitFromTierSpend == Times(tierCustomerSpend, profitMargin)
        tierProfitImpact    == IF Lt(Num(0), tierCustomerSpend)
                               THEN Times(Over(item.retailPrice, profitFromTierSpend),
                                          Num(100))
                               ELSE Num(0)
        wasModified         == k # 0 /\ ~StrictEq(currentTierPoints,
                                                  OrZero(item.tierSuggestedCost))
    IN  [id                  |-> item.id,
         tier                |-> item.tier,
         currentTierPoints   |-> currentTierPoints,
         tierCustomerSpend   |-> tierCustomerSpend,
         profitFromTierSpend |-> profitFromTierSpend,
         tierProfitImpact    |-> tierProfitImpact,
         spendShown          |-> ToFixed(tierCustomerSpend, 100),
         impactShown         |-> IF Lt(Num(0), tierProfitImpact)
                                 THEN ToFixed(tierProfitImpact, 10)
                                 ELSE NaN,
         edited              |-> wasModified]

\* A row of downloadTierCSV (lines 756-781)
TierCsvRow(item) ==
    LET k                   == CurrentTierIndex(item)
        currentTierPoints   == IF k # 0 THEN tiers[k].suggestedPointCost
                               ELSE OrZero(item.tierSuggestedCost)
        tierCustomerSpend   == Over(currentTierPoints, config.pointsPerDollar)
        profitMargin        == Over(Minus(Num(100), config.cogsMargin), Num(100))
        profitFromTierSpend == Times(tierCustomerSpend, profitMargin)
        tierProfitImpact    == IF Lt(Num(0), tierCustomerSpend)
                               THEN Times(Over(item.retailPrice, profitFromTierSpend),
                                          Num(100))
                               ELSE Num(0)
        wasModified         == k # 0 /\ ~StrictEq(currentTierPoints,
                                                  OrZero(item.tierSuggestedCost))
    IN  [id                  |-> item.id,
         tier                |-> item.tier,
         currentTierPoints   |-> currentTierPoints,
         tierCustomerSpend   |-> tierCustomerSpend,
         profitFromTierSpend |-> profitFromTierSpend,
         tierProfitImpact    |-> tierProfitImpact,
         spendShown          |-> ToFixed(tierCustomerSpend, 100),
         impactShown         |-> IF Lt(Num(0), tierProfitImpact)
                                 THEN ToFixed(tierProfitImpact, 10)
                                 ELSE NaN,
         edited              |-> wasModified]

-----------------------------------------------------------------------------
(* Handlers.  A handler runs while the user is logged in and the element   *)
(* that carries it is rendered; inputs are parameters.                     *)

\* What the user can act on: the calculator is rendered and no effect of
\* the last commit is still to run
Interactive == isLoggedIn /\ ~EffectPending

\* What generateAutomaticTiers reads of the config of the render it was
\* created in
ClosureOf(cfg) ==
    [pointsPerDollar    |-> cfg.pointsPerDollar,
     defaultPaybackRate |-> cfg.defaultPaybackRate]

\* handleFileUpload (lines 458-462, 513): starts reading the file; the
\* onload callback keeps the closure of the render in which the upload began
handleFileUpload(maxUploads) ==
    /\ Interactive
    /\ activeTab = "setup"
    /\ BagCardinality(uploads) < maxUploads
    /\ uploads' = uploads (+) SetToBag({ClosureOf(config)})
    /\ UNCHANGED <<isLoggedIn, activeTab, config, items, tiers, uneditedTiers,
                   results,                   effectDeps, tiersFrom, regenerated>>
    /\ calculatedBy' = StillCalculatedBy

\* reader.onload (lines 463-512) for a file whose valid rows carry the
\* prices file; closure is the config the callback closed over
onload(closure, file) ==
    /\ ~EffectPending
    /\ BagIn(closure, uploads)
    /\ uploads' = uploads (-) SetToBag({closure})
    /\ LET newItems == [i \in DOMAIN file |-> NewItem(i, file[i])]
       IN  /\ items' = newItems
           /\ IF Len(newItems) > 0
              THEN /\ tiers' = generateAutomaticTiers(EnabledOf(newItems), closure)
                   /\ uneditedTiers' = tiers'
                   /\ tiersFrom' = "items"
                   /\ regenerated' = TRUE
              ELSE /\ tiersFrom' = IF Len(tiers) > 0 THEN "stale" ELSE "none"
                   /\ UNCHANGED <<tiers, uneditedTiers, regenerated>>
    /\ activeTab' = "items"
    /\ UNCHANGED <<isLoggedIn, config, results, effectDeps>>
    /\ calculatedBy' = StillCalculatedBy

\* reader.onload for a file without a name or price column (lines 479-484)
onloadRejected(closure) ==
    /\ ~EffectPending
    /\ BagIn(closure, uploads)
    /\ uploads' = uploads (-) SetToBag({closure})
    /\ UNCHANGED <<isLoggedIn, activeTab, config, items, tiers, uneditedTiers,
                   results,                   effectDeps, tiersFrom, regenerated>>
    /\ calculatedBy' = StillCalculatedBy

\* handleConfigChange bringing the point costs of the results in step with
\* the new configuration
handleConfigChange_recalculating(field, value) ==
    /\ Interactive
    /\ activeTab = "setup"
    /\ LET newConfig    == [config EXCEPT ![field] = value]
           enabledItems == EnabledOf(items)
       IN  /\ config' = newConfig
           /\ results' = [i \in DOMAIN results |->
                              [results[i] EXCEPT !.pointCost =
                                  MathRound(Times(results[i].customerSpendRequired,
                                                  newConfig.pointsPerDollar))]]
           /\ IF field = "defaultPaybackRate" /\ Len(items) > 0 /\ Len(enabledItems) > 0
              THEN /\ tiers' = generateAutomaticTiersWithConfig(enabledItems, newConfig)
                   /\ uneditedTiers' = tiers'
                   /\ tiersFrom' = "withConfig"
                   /\ regenerated' = TRUE
              ELSE /\ tiersFrom' = IF Len(tiers) = 0 THEN "none"
                                   ELSE IF field = "cogsMargin" \/ newConfig = config
                                        THEN tiersFrom
                                   ELSE IF tiersFrom \in {"items", "withConfig"}
                                        THEN "config"
                                   ELSE tiersFrom
                   /\ UNCHANGED <<tiers, uneditedTiers, regenerated>>
    /\ UNCHANGED <<isLoggedIn, activeTab, items, uploads, effectDeps>>
    /\ calculatedBy' = StillCalculatedBy

\* handleConfigChange(field, value), from the three inputs of the setup tab
handleConfigChange(field, value) ==
    /\ Interactive
    /\ activeTab = "setup"
    /\ LET newConfig    == [config EXCEPT ![field] = value]
           enabledItems == EnabledOf(items)
       IN  /\ config' = newConfig
           /\ IF field = "defaultPaybackRate" /\ Len(items) > 0 /\ Len(enabledItems) > 0
              THEN /\ tiers' = generateAutomaticTiersWithConfig(enabledItems, newConfig)
                   /\ uneditedTiers' = tiers'
                   /\ tiersFrom' = "withConfig"
                   /\ regenerated' = TRUE
              ELSE /\ tiersFrom' = IF Len(tiers) = 0 THEN "none"
                                   ELSE IF field = "cogsMargin" \/ newConfig = config
                                        THEN tiersFrom
                                   ELSE IF tiersFrom \in {"items", "withConfig"}
                                        THEN "config"
                                   ELSE tiersFrom
                   /\ UNCHANGED <<tiers, uneditedTiers, regenerated>>
    /\ UNCHANGED <<isLoggedIn, activeTab, items, results, uploads, effectDeps>>
    /\ calculatedBy' = StillCalculatedBy

\* toggleItem(id, enabled), from a row of the items table
toggleItem(id, enabled) ==
    /\ Interactive
    /\ activeTab = "items"
    /\ LET updatedItems == [i \in DOMAIN items |->
                               IF items[i].id = id
                               THEN [items[i] EXCEPT !.enabled = enabled,
                                                     !.included = enabled]
                               ELSE items[i]]
           enabledItems == EnabledOf(updatedItems)
       IN  /\ items' = updatedItems
           /\ IF Len(enabledItems) > 0
              THEN /\ tiers' = generateAutomaticTiers(enabledItems, config)
                   /\ uneditedTiers' = tiers'
                   /\ tiersFrom' = "items"
                   /\ regenerated' = TRUE
              ELSE /\ tiers' = <<>>
                   /\ uneditedTiers' = tiers'
                   /\ tiersFrom' = "none"
                   /\ UNCHANGED regenerated
    /\ UNCHANGED <<isLoggedIn, activeTab, config, results, uploads, effectDeps>>
    /\ calculatedBy' = StillCalculatedBy

\* The Enable All button (lines 1047-1059)
EnableAll ==
    /\ Interactive
    /\ activeTab = "items"
    /\ Len(items) > 0
    /\ LET updatedItems == [i \in DOMAIN items |-> [items[i] EXCEPT !.enabled = TRUE]]
       IN  /\ items' = updatedItems
           /\ tiers' = generateAutomaticTiers(updatedItems, config)
           /\ uneditedTiers' = tiers'
    /\ tiersFrom' = "items"
    /\ regenerated' = TRUE
    /\ UNCHANGED <<isLoggedIn, activeTab, config, results, uploads, effectDeps>>
    /\ calculatedBy' = StillCalculatedBy

\* The Disable All button (lines 1061-1071)
DisableAll ==
    /\ Interactive
    /\ activeTab = "items"
    /\ Len(items) > 0
    /\ items' = [i \in DOMAIN items |-> [items[i] EXCEPT !.enabled = FALSE]]
    /\ tiers' = <<>>
    /\ uneditedTiers' = tiers'
    /\ tiersFrom' = "none"
    /\ UNCHANGED <<isLoggedIn, activeTab, config, results, uploads, effectDeps,
                   regenerated>>
    /\ calculatedBy' = StillCalculatedBy

\* Regenerate Tiers keeping the points of the tiers edited by hand
RegenerateTiers_keepingEdits ==
    /\ Interactive
    /\ activeTab = "tiers"
    /\ Len(items) > 0
    /\ LET generated == generateAutomaticTiers(EnabledOf(items), config)
       IN  /\ tiers' = [k \in DOMAIN generated |->
                            IF k \in DOMAIN tiers /\ tiers[k].manual
                            THEN [generated[k] EXCEPT !.suggestedPointCost =
                                                          tiers[k].suggestedPointCost]
                            ELSE generated[k]]
           /\ uneditedTiers' = generated
    /\ tiersFrom' = IF Len(tiers') > 0 THEN "items" ELSE "none"
    /\ regenerated' = TRUE
    /\ UNCHANGED <<isLoggedIn, activeTab, config, items, results, uploads,
                   effectDeps>>
    /\ calculatedBy' = StillCalculatedBy

\* The Regenerate Tiers button (lines 1226-1236)
RegenerateTiers ==
    /\ Interactive
    /\ activeTab = "tiers"
    /\ Len(items) > 0
    /\ tiers' = generateAutomaticTiers(EnabledOf(items), config)
    /\ uneditedTiers' = tiers'
    /\ tiersFrom' = IF Len(tiers') > 0 THEN "items" ELSE "none"
    /\ regenerated' = TRUE
    /\ UNCHANGED <<isLoggedIn, activeTab, config, items, results, uploads,
                   effectDeps>>
    /\ calculatedBy' = StillCalculatedBy

\* The Reset to Auto-Generated button (lines 1237-1247)
ResetToAutoGenerated ==
    /\ Interactive
    /\ activeTab = "tiers"
    /\ Len(items) > 0
    /\ tiers' = generateAutomaticTiers(EnabledOf(items), config)
    /\ uneditedTiers' = tiers'
    /\ tiersFrom' = IF Len(tiers') > 0 THEN "items" ELSE "none"
    /\ regenerated' = TRUE
    /\ UNCHANGED <<isLoggedIn, activeTab, config, items, results, uploads,
                   effectDeps>>
    /\ calculatedBy' = StillCalculatedBy

\* parseInt(newPoints.toString()) of what a number input holds: a decimal
\* numeral, cut at its decimal point, or the empty string
ParseInt(text) ==
    IF text.empty THEN NaN
    ELSE Num(Sign(text.value.n) * (Abs(text.value.n) \div text.value.d))

\* updateTierPoints naming the tier after its new points, as the effect does
updateTierPoints_renaming(tierId, newPoints) ==
    /\ Interactive
    /\ activeTab = "tiers"
    /\ Len(tiers) > 0
    /\ tiers' = [i \in DOMAIN tiers |->
                    IF tiers[i].id = tierId
                    THEN [tiers[i] EXCEPT
                              !.suggestedPointCost = OrZero(ParseInt(newPoints)),
                              !.name = PointsLabel(roundToNiceNumber(
                                           OrZero(ParseInt(newPoints)))),
                              !.manual = TRUE]
                    ELSE tiers[i]]
    /\ tiersFrom' = IF \E i \in DOMAIN tiers : tiers[i].id = tierId
                    THEN "edit" ELSE tiersFrom
    /\ UNCHANGED <<isLoggedIn, activeTab, config, items, results, uploads,
                   effectDeps, uneditedTiers, regenerated>>
    /\ calculatedBy' = StillCalculatedBy

\* updateTierPoints(tierId, newPoints), from the input of a tier card
updateTierPoints(tierId, newPoints) ==
    /\ Interactive
    /\ activeTab = "tiers"
    /\ Len(tiers) > 0
    /\ tiers' = [i \in DOMAIN tiers |->
                    IF tiers[i].id = tierId
                    THEN [tiers[i] EXCEPT
                              !.suggestedPointCost = OrZero(ParseInt(newPoints)),
                              !.manual = TRUE]
                    ELSE tiers[i]]
    /\ tiersFrom' = IF \E i \in DOMAIN tiers : tiers[i].id = tierId
                    THEN "edit" ELSE tiersFrom
    /\ UNCHANGED <<isLoggedIn, activeTab, config, items, results, uploads,
                   effectDeps, uneditedTiers, regenerated>>
    /\ calculatedBy' = StillCalculatedBy

\* calculateResultsEnhanced, from the Calculate Results button of the items
\* tab, rendered when enabledItems.length > 0 && tiers.length > 0
calculateResultsEnhanced ==
    /\ Interactive
    /\ activeTab = "items"
    /\ Len(EnabledOf(items)) > 0 /\ Len(tiers) > 0
    /\ IF Len(EnabledOf(items)) = 0
       THEN UNCHANGED <<results, activeTab, regenerated, calculatedBy>>
       ELSE /\ results' = CalculatedResultsEnhanced
            /\ activeTab' = "results"
            /\ regenerated' = FALSE
            /\ calculatedBy' = "calculateResultsEnhanced"
    /\ UNCHANGED <<isLoggedIn, config, items, tiers, uneditedTiers, uploads, effectDeps,
                   tiersFrom>>

\* calculateResults regenerating the tiers before it calculates
calculateResults_regenerating ==
    /\ Interactive
    /\ activeTab = "results"
    /\ Len(results) > 0
    /\ IF Len(IncludedOf(items)) = 0 \/ Len(tiers) = 0
       THEN UNCHANGED <<results, activeTab, regenerated, tiers, uneditedTiers,
                        calculatedBy>>
       ELSE /\ results' = CalculatedResults
            /\ activeTab' = "results"
            /\ regenerated' = FALSE
            /\ calculatedBy' = "calculateResults"
            /\ tiers' = generateAutomaticTiers(IncludedOf(items), config)
            /\ uneditedTiers' = tiers'
    /\ UNCHANGED <<isLoggedIn, config, items, uploads, effectDeps, tiersFrom>>

\* calculateResults, from the Recalculate button of the results tab,
\* rendered when results.length > 0
calculateResults ==
    /\ Interactive
    /\ activeTab = "results"
    /\ Len(results) > 0
    /\ IF Len(IncludedOf(items)) = 0 \/ Len(tiers) = 0
       THEN UNCHANGED <<results, activeTab, regenerated, calculatedBy>>
       ELSE /\ results' = CalculatedResults
            /\ activeTab' = "results"
            /\ regenerated' = FALSE
            /\ calculatedBy' = "calculateResults"
    /\ UNCHANGED <<isLoggedIn, config, items, tiers, uneditedTiers, uploads, effectDeps,
                   tiersFrom>>

\* A button of the tab bar (line 2485), or one of the buttons inside a tab
\* that only switch tabs
setActiveTab(tab) ==
    /\ Interactive
    /\ activeTab' = tab
    /\ UNCHANGED <<isLoggedIn, config, items, tiers, uneditedTiers, results, uploads,
                   effectDeps, tiersFrom, regenerated>>
    /\ calculatedBy' = StillCalculatedBy

\* resetAllStates, called by handleSignOut
handleSignOut ==
    /\ Interactive
    /\ activeTab' = "inputs"
    /\ isLoggedIn' = FALSE
    /\ items' = <<>>
    /\ tiers' = <<>>
    /\ uneditedTiers' = tiers'
    /\ results' = <<>>
    /\ config' = DefaultConfig
    /\ tiersFrom' = "none"
    /\ regenerated' = FALSE
    /\ UNCHANGED <<uploads, effectDeps>>
    /\ calculatedBy' = StillCalculatedBy

\* handleLogin with valid contact data and a valid token
handleLogin ==
    /\ ~isLoggedIn
    /\ ~EffectPending
    /\ isLoggedIn' = TRUE
    /\ UNCHANGED <<activeTab, config, items, tiers, uneditedTiers, results, uploads,
                   effectDeps, tiersFrom, regenerated>>
    /\ calculatedBy' = StillCalculatedBy

\* The interval callback (lines 388-404) when checkTokenExpiry() is true
tokenExpired ==
    /\ isLoggedIn
    /\ ~EffectPending
    /\ isLoggedIn' = FALSE
    /\ UNCHANGED <<activeTab, config, items, tiers, uneditedTiers, results, uploads,
                   effectDeps, tiersFrom, regenerated>>
    /\ calculatedBy' = StillCalculatedBy

-----------------------------------------------------------------------------
(* Inputs.                                                                 *)

\* Longest catalog uploaded
MaxItems == 2

\* Longest catalog uploaded where only tier generation is explored
GenMaxItems == 6

\* Most uploads in flight at once
MaxUploads == 1

\* Retail prices of catalog rows: $3.50 and $3.60
Prices == {Q(7, 2), Q(18, 5)}

\* Retail prices where only tier generation is explored: $1.00, $2.00, $3.50
GenPrices == {Num(1), Num(2), Q(7, 2)}

\* and $1.00 .. $6.00 for catalogs without a repeated price
DistinctPrices == {Num(1), Num(2), Num(3), Num(4), Num(5), Num(6)}

\* The catalogs of at most n rows with prices from P
CatalogsOf(P, n) == UNION {[1..k -> P] : k \in 0..n}

\* Those of them whose prices strictly rise, or strictly fall, row by row
DistinctCatalogsOf(P, n) ==
    {file \in CatalogsOf(P, n) :
        \/ \A i \in 1..(Len(file) - 1) : Lt(file[i], file[i + 1])
        \/ \A i \in 1..(Len(file) - 1) : Lt(file[i + 1], file[i])}

GenCatalogs ==
    CatalogsOf(GenPrices, GenMaxItems) \cup DistinctCatalogsOf(DistinctPrices, GenMaxItems)

\* Values typed into the three configuration inputs
PointsPerDollarInputs == {Num(100), Num(10)}

CogsMarginInputs == {Num(30), Num(40)}

PaybackRateInputs == {Num(5), Num(7)}

\* Texts typed into a tier's points input: "3000" and ""
Text3000 == [empty |-> FALSE, value |-> Num(3000)]

TextEmpty == [empty |-> TRUE, value |-> Num(0)]

PointsTexts == {Text3000, TextEmpty}

-----------------------------------------------------------------------------
(* The specifications.                                                     *)

\* The state after construction: the state cells' initial values, no upload
\* in flight, the tier effect run once on mount
Init ==
    /\ isLoggedIn = FALSE
    /\ activeTab = "setup"
    /\ config = DefaultConfig
    /\ items = <<>>
    /\ tiers = <<>>
    /\ results = <<>>
    /\ uploads = EmptyBag
    /\ effectDeps = <<DefaultConfig.defaultPayback, DefaultConfig.pointsPerDollar, 0>>
    /\ uneditedTiers = <<>>
    /\ tiersFrom = "none"
    /\ regenerated = FALSE
    /\ calculatedBy = ""

\* The whole program: every handler, callback and effect, on every input
Next ==
    \/ RunEffect
    \/ handleLogin
    \/ tokenExpired
    \/ handleSignOut
    \/ \E tab \in TabIds : setActiveTab(tab)
    \/ handleFileUpload(MaxUploads)
    \/ \E closure \in BagToSet(uploads), file \in CatalogsOf(Prices, MaxItems) :
           onload(closure, file)
    \/ \E closure \in BagToSet(uploads) : onloadRejected(closure)
    \/ \E value \in PointsPerDollarInputs : handleConfigChange("pointsPerDollar", value)
    \/ \E value \in CogsMarginInputs : handleConfigChange("cogsMargin", value)
    \/ \E value \in PaybackRateInputs : handleConfigChange("defaultPaybackRate", value)
    \/ \E i \in DOMAIN items : toggleItem(items[i].id, ~items[i].enabled)
    \/ EnableAll
    \/ DisableAll
    \/ RegenerateTiers
    \/ ResetToAutoGenerated
    \/ \E i \in DOMAIN tiers, newPoints \in PointsTexts :
           updateTierPoints(tiers[i].id, newPoints)
    \/ calculateResultsEnhanced
    \/ calculateResults

Spec == Init /\ [][Next]_vars

(***************************************************************************)
(* Spec has more states than can be enumerated.  The specifications below  *)
(* are parts of it: each starts in the state Spec reaches by handleLogin   *)
(* and handleFileUpload, with the first upload being read, and takes the   *)
(* steps of some of the actions, so that each of their behaviours is the   *)
(* tail of a behaviour of Spec.                                            *)
(***************************************************************************)

\* Logged in on the setup tab, the first file chosen and being read
InitUploading ==
    /\ isLoggedIn = TRUE
    /\ activeTab = "setup"
    /\ config = DefaultConfig
    /\ items = <<>>
    /\ tiers = <<>>
    /\ results = <<>>
    /\ uploads = SetToBag({ClosureOf(DefaultConfig)})
    /\ effectDeps = <<DefaultConfig.defaultPayback, DefaultConfig.pointsPerDollar, 0>>
    /\ uneditedTiers = <<>>
    /\ tiersFrom = "none"
    /\ regenerated = FALSE
    /\ calculatedBy = ""

\* Tier generation: catalogs of up to GenMaxItems rows, regenerated by the
\* button, by a change of the payback rate and by toggling the first row
NextGen ==
    \/ RunEffect
    \/ \E tab \in TabIds : setActiveTab(tab)
    \/ \E closure \in BagToSet(uploads), file \in GenCatalogs : onload(closure, file)
    \/ \E value \in PaybackRateInputs : handleConfigChange("defaultPaybackRate", value)
    \/ RegenerateTiers
    \/ Len(items) > 0 /\ toggleItem(items[1].id, ~items[1].enabled)

SpecGen == InitUploading /\ [][NextGen]_vars

\* Per-item calculation under changes of the configuration and tier edits
NextCalc ==
    \/ RunEffect
    \/ \E tab \in TabIds : setActiveTab(tab)
    \/ \E closure \in BagToSet(uploads), file \in CatalogsOf(Prices, MaxItems) :
           onload(closure, file)
    \/ \E value \in PointsPerDollarInputs : handleConfigChange("pointsPerDollar", value)
    \/ \E value \in PaybackRateInputs : handleConfigChange("defaultPaybackRate", value)
    \/ RegenerateTiers
    \/ \E i \in DOMAIN tiers : updateTierPoints(tiers[i].id, Text3000)
    \/ calculateResultsEnhanced
    \/ calculateResults

SpecCalc == InitUploading /\ [][NextCalc]_vars

\* The tier-based (live) variant under tier edits and changes of
\* pointsPerDollar and cogsMargin
NextLive ==
    \/ RunEffect
    \/ \E tab \in TabIds : setActiveTab(tab)
    \/ \E closure \in BagToSet(uploads), file \in CatalogsOf(Prices, MaxItems) :
           onload(closure, file)
    \/ \E value \in PointsPerDollarInputs : handleConfigChange("pointsPerDollar", value)
    \/ \E value \in CogsMarginInputs : handleConfigChange("cogsMargin", value)
    \/ \E i \in DOMAIN tiers, newPoints \in PointsTexts :
           updateTierPoints(tiers[i].id, newPoints)
    \/ calculateResultsEnhanced

SpecLive == InitUploading /\ [][NextLive]_vars

\* Inclusion of items: toggles, Enable All, Disable All and calculation
NextItems ==
    \/ RunEffect
    \/ \E tab \in TabIds : setActiveTab(tab)
    \/ \E closure \in BagToSet(uploads), file \in CatalogsOf(Prices, MaxItems) :
           onload(closure, file)
    \/ \E i \in DOMAIN items : toggleItem(items[i].id, ~items[i].enabled)
    \/ EnableAll
    \/ DisableAll
    \/ RegenerateTiers
    \/ calculateResultsEnhanced
    \/ calculateResults

SpecItems == InitUploading /\ [][NextItems]_vars

-----------------------------------------------------------------------------
(* Properties of tier generation, checked under SpecGen.                   *)

\* The tier set is the generator's output for the enabled items
Generated == tiersFrom \in {"items", "withConfig"}

\* The arithmetic mean of the prices of a tier's member items
MeanPrice(members) == Over(SumPrices(members), Num(Len(members)))

\* The places <<k, j>> of the member lists that hold the item id
PlacesOf(id) ==
    {place \in UNION {{<<k, j>> : j \in DOMAIN tiers[k].items} : k \in DOMAIN tiers} :
        tiers[place[1]].items[place[2]].id = id}

RECURSIVE SumItemCounts(_)
SumItemCounts(ts) ==
    IF Len(ts) = 0 THEN 0 ELSE ts[1].itemCount + SumItemCounts(Tail(ts))

\* C1: after a tier generation from the enabled items, once the effects it
\* triggers have run, every tier's suggestedPointCost is
\* round((avgPrice / (paybackRate / 100)) * pointsPerDollar) for the mean
\* price of its members, the configured payback rate and the current
\* pointsPerDollar.
C1_SuggestedCostOfGeneratedTiers ==
    (tiersFrom = "items" /\ ~EffectPending) =>
        \A k \in DOMAIN tiers :
            tiers[k].suggestedPointCost =
                SuggestedPointCost(MeanPrice(tiers[k].items),
                                   config.defaultPaybackRate, config.pointsPerDollar)

\* C2: generating from N >= 5 enabled items of pairwise distinct prices
\* gives exactly 5 tiers, none empty; generating from 1 enabled item gives
\* exactly 1 tier, which contains it.
C2_TierCount ==
    Generated =>
        LET S == EnabledOf(items)
        IN  /\ (/\ Len(S) >= 5
                /\ \A i, j \in DOMAIN S : i # j => S[i].retailPrice # S[j].retailPrice)
               => /\ Len(tiers) = 5
                  /\ \A k \in DOMAIN tiers : Len(tiers[k].items) > 0
            /\ Len(S) = 1
               => /\ Len(tiers) = 1
                  /\ tiers[1].items = S

\* C3: the member lists of a tier set generated from the enabled items S
\* partition S: every item of S is in exactly one tier and every member is
\* an item of S, the itemCount values sum to |S|, and every member's price
\* lies between its tier's minPrice and maxPrice.
C3_TiersPartitionEnabledItems ==
    Generated =>
        LET S == EnabledOf(items)
        IN  /\ \A i \in DOMAIN S : Cardinality(PlacesOf(S[i].id)) = 1
            /\ \A k \in DOMAIN tiers : \A j \in DOMAIN tiers[k].items :
                   /\ \E i \in DOMAIN S : S[i].id = tiers[k].items[j].id
                   /\ Le(tiers[k].minPrice, tiers[k].items[j].retailPrice)
                   /\ Le(tiers[k].items[j].retailPrice, tiers[k].maxPrice)
            /\ SumItemCounts(tiers) = Len(S)

\* C3 witness: six rows uploaded, the first then disabled: the five enabled
\* items in five tiers
C3_Witness ==
    /\ Generated
    /\ Len(items) = 6
    /\ Len(EnabledOf(items)) = 5
    /\ Len(tiers) = 5
    /\ ~EffectPending

\* C4: generated tiers are in ascending price order with ranges that do
\* not overlap: minPrice <= maxPrice in every tier, and a tier's maxPrice
\* is below the next tier's minPrice, also when items share a price.
C4_TierRangesDoNotOverlap ==
    Generated =>
        /\ \A k \in DOMAIN tiers : Le(tiers[k].minPrice, tiers[k].maxPrice)
        /\ \A k \in 1..(Len(tiers) - 1) : Lt(tiers[k].maxPrice, tiers[k + 1].minPrice)

-----------------------------------------------------------------------------
(* Properties of the per-item calculation, checked under SpecCalc.         *)

\* A step of one of the two per-item calculations
CalculationStep == calculateResults \/ calculateResultsEnhanced

\* The relations C5 states between the fields of a result and pointsPerDollar
SpendAndPointCostOf(result, pointsPerDollar) ==
    /\ result.customerSpendRequired =
           Over(result.retailPrice, Over(result.tierPayback, Num(100)))
    /\ result.pointCost = MathRound(Times(result.customerSpendRequired, pointsPerDollar))
    /\ Le(Num(0), result.pointCost)

\* C5: every result a per-item calculation produces, for a positive price,
\* a payback rate p in (0, 100] recorded as tierPayback and a positive
\* pointsPerDollar, has customerSpendRequired = retailPrice / (p / 100) and
\* pointCost = round(customerSpendRequired * pointsPerDollar) >= 0.
C5_SpendAndPointCost ==
    [][CalculationStep =>
          \A i \in DOMAIN results' :
              (/\ Lt(Num(0), results'[i].retailPrice)
               /\ Lt(Num(0), results'[i].tierPayback)
               /\ Le(results'[i].tierPayback, Num(100))
               /\ Lt(Num(0), config.pointsPerDollar))
              => SpendAndPointCostOf(results'[i], config.pointsPerDollar)]_vars

\* C5 witness: the example of the claim, produced by calculateResults from
\* a tier whose paybackRate is 7: price 3.50 at 100 points per dollar gives
\* customerSpendRequired 50 and pointCost 5000
C5_Witness ==
    /\ config.pointsPerDollar = Num(100)
    /\ \E i \in DOMAIN results :
           /\ results[i].retailPrice = Q(7, 2)
           /\ results[i].tierPayback = Num(7)
           /\ results[i].customerSpendRequired = Num(50)
           /\ results[i].pointCost = Num(5000)
           /\ "netBenefit" \in DOMAIN results[i]

\* C6: after a per-item calculation replaced the results, they are sorted
\* ascending by pointCost, the results of equal pointCost in the order of
\* their items in the catalog.
C6_ResultsSortedByPointCost ==
    [][CalculationStep =>
          \A i, j \in DOMAIN results' :
              i < j => \/ Lt(results'[i].pointCost, results'[j].pointCost)
                       \/ /\ results'[i].pointCost = results'[j].pointCost
                          /\ results'[i].id < results'[j].id]_vars

\* C7: a per-item calculation leaves the tier collection as it is, and with
\* it the suggestedPointCost and the other fields of a tier that
\* updateTierPoints edited, each time the calculation is run.
C7_CalculationKeepsTiers ==
    [][CalculationStep => tiers' = tiers]_vars

\* C7 witness: a tier edited to 3000 points, a calculation made after the
\* edit, whose results carry the edited value, and the tier still at 3000
C7_Witness ==
    /\ tiersFrom = "edit"
    /\ ~regenerated
    /\ \E k \in DOMAIN tiers :
           /\ tiers[k].suggestedPointCost = Num(3000)
           /\ \E i \in DOMAIN results :
                  /\ results[i].tierId = tiers[k].id
                  /\ results[i].tierSuggestedCost = Num(3000)
                  /\ results[i].pointCost # Num(3000)

-----------------------------------------------------------------------------
(* Properties of the tier-based (live) variant, checked under SpecLive.    *)

\* C8: after a calculation, while the tier generator has not run again,
\* the tier-based view and the tier CSV show for every result the current
\* suggestedPointCost of the tier the item was assigned at calculation
\* time, as long as that tier exists: never another tier's points and
\* never the value stored in the result.
C8_LiveRowsUseAssignedTier ==
    ~regenerated =>
        \A i \in DOMAIN results : \A k \in DOMAIN tiers :
            tiers[k].id = results[i].tierId =>
                /\ TierViewRow(results[i]).currentTierPoints = tiers[k].suggestedPointCost
                /\ TierCsvRow(results[i]).currentTierPoints = tiers[k].suggestedPointCost

\* C9: the view's row and the tier CSV's row agree and, for tier points
\* P > 0, customerSpend = P / pointsPerDollar, profitFromSpend =
\* customerSpend * ((100 - cogsMargin) / 100) and profitImpact =
\* (retailPrice / profitFromSpend) * 100.
C9_TierVariantFormulas ==
    \A i \in DOMAIN results :
        LET view == TierViewRow(results[i])
            csv  == TierCsvRow(results[i])
            P    == view.currentTierPoints
        IN  /\ view = csv
            /\ Lt(Num(0), P) =>
                   /\ view.tierCustomerSpend = Over(P, config.pointsPerDollar)
                   /\ view.profitFromTierSpend =
                          Times(view.tierCustomerSpend,
                                Over(Minus(Num(100), config.cogsMargin), Num(100)))
                   /\ view.tierProfitImpact =
                          Times(Over(results[i].retailPrice, view.profitFromTierSpend),
                                Num(100))

\* C9 witness: the example of the claim: a row whose tier was edited to
\* 3000 points, at 100 points per dollar and a COGS margin of 30: customer
\* spend 30, profit from spend 21
C9_Witness ==
    /\ config.pointsPerDollar = Num(100)
    /\ config.cogsMargin = Num(30)
    /\ \E i \in DOMAIN results :
           /\ TierCsvRow(results[i]).currentTierPoints = Num(3000)
           /\ TierCsvRow(results[i]).tierCustomerSpend = Num(30)
           /\ TierCsvRow(results[i]).profitFromTierSpend = Num(21)
           /\ TierViewRow(results[i]).edited

-----------------------------------------------------------------------------
(* Properties of the inclusion of items, checked under SpecItems.          *)

\* C10: a per-item calculation requested while no item is included, or
\* while the tier set is empty, changes nothing: results, tiers, items and
\* configuration stay as they are.
C10_CalculationWithoutItemsOrTiers ==
    [][(CalculationStep /\ (Len(IncludedOf(items)) = 0 \/ Len(tiers) = 0))
          => UNCHANGED <<results, tiers, items, config>>]_vars

-----------------------------------------------------------------------------
(* A payback rate of zero.                                                 *)

\* Values typed into the payback rate input, 0 among them
PaybackRateInputsWithZero == {Num(0), Num(5)}

NextZero ==
    \/ RunEffect
    \/ \E tab \in TabIds : setActiveTab(tab)
    \/ \E closure \in BagToSet(uploads), file \in CatalogsOf(Prices, MaxItems) :
           onload(closure, file)
    \/ \E value \in PaybackRateInputsWithZero :
           handleConfigChange("defaultPaybackRate", value)
    \/ RegenerateTiers
    \/ calculateResultsEnhanced
    \/ calculateResults

SpecZero == InitUploading /\ [][NextZero]_vars

\* C11: once the payback rate has been set to 0, no tier generation and no
\* per-item calculation leaves a non-finite value (Infinity, NaN) in a
\* tier's suggestedPointCost or in a result's customerSpendRequired,
\* pointCost or profitImpact.
C11_ZeroPaybackGivesNoNonFiniteValue ==
    config.defaultPaybackRate = Num(0) =>
        /\ \A k \in DOMAIN tiers : IsFinite(tiers[k].suggestedPointCost)
        /\ \A i \in DOMAIN results :
               /\ IsFinite(results[i].customerSpendRequired)
               /\ IsFinite(results[i].pointCost)
               /\ IsFinite(results[i].profitImpact)

-----------------------------------------------------------------------------
(* Tier edits.                                                             *)

\* Texts typed into a tier's points input: "3000", "", "-5" and "12.7"
TextMinus5 == [empty |-> FALSE, value |-> Num(-5)]

Text12point7 == [empty |-> FALSE, value |-> Q(127, 10)]

EditTexts == {Text3000, TextEmpty, TextMinus5, Text12point7}

\* The ids a generated tier can have (i + 1 for i < 5); those that no tier
\* of the current set has are the ids of no tier
TierIds == 1..5

NextEdit ==
    \/ RunEffect
    \/ \E tab \in TabIds : setActiveTab(tab)
    \/ \E closure \in BagToSet(uploads), file \in CatalogsOf(Prices, MaxItems) :
           onload(closure, file)
    \/ \E tierId \in TierIds, newPoints \in EditTexts : updateTierPoints(tierId, newPoints)
    \/ calculateResultsEnhanced

SpecEdit == InitUploading /\ [][NextEdit]_vars

\* A tier without the two fields an edit writes (manual is history)
EditFrame(tier) == [tier EXCEPT !.suggestedPointCost = Num(0), !.manual = FALSE]

\* C12: updateTierPoints(tierId, v) changes the suggestedPointCost of the
\* tier whose id is tierId and nothing else: the number and order of the
\* tiers, the other fields of that tier, the other tiers, items, results
\* and configuration stay, no effect follows, and the tier set is
\* unchanged when no tier has that id.
C12_EditChangesOnlyThePoints ==
    [][\A tierId \in TierIds, newPoints \in EditTexts :
          updateTierPoints(tierId, newPoints) =>
              /\ DOMAIN tiers' = DOMAIN tiers
              /\ \A k \in DOMAIN tiers :
                     IF tiers[k].id = tierId
                     THEN EditFrame(tiers'[k]) = EditFrame(tiers[k])
                     ELSE tiers'[k] = tiers[k]
              /\ (\A k \in DOMAIN tiers : tiers[k].id # tierId) => tiers' = tiers
              /\ UNCHANGED <<items, results, config>>
              /\ ~EffectPending']_vars

\* C12 witness: of two tiers, named by the effect, one edited to 3000
\* points and the other as generated, with results calculated before
C12_Witness ==
    /\ Len(tiers) = 2
    /\ Len(results) = 2
    /\ tiers[1].manual /\ tiers[1].suggestedPointCost = Num(3000)
    /\ tiers[1].name = PointsLabel(Num(5000))
    /\ ~tiers[2].manual /\ tiers[2].suggestedPointCost = Num(5143)

\* C13: after updateTierPoints(tierId, v) the edited tier's
\* suggestedPointCost is a non-negative integer whatever v is: the integer
\* v denotes when v is numeric, 0 when v is empty or not numeric.
C13_EditedPointsAreNonNegativeIntegers ==
    [][\A tierId \in TierIds, newPoints \in EditTexts :
          updateTierPoints(tierId, newPoints) =>
              \A k \in DOMAIN tiers :
                  tiers[k].id = tierId =>
                      /\ IsInteger(tiers'[k].suggestedPointCost)
                      /\ Le(Num(0), tiers'[k].suggestedPointCost)
                      /\ newPoints.empty => tiers'[k].suggestedPointCost = Num(0)
                      /\ (~newPoints.empty /\ IsInteger(newPoints.value))
                         => tiers'[k].suggestedPointCost = newPoints.value]_vars

-----------------------------------------------------------------------------
(* Changes of the configuration.                                           *)

NextConfig ==
    \/ RunEffect
    \/ \E tab \in TabIds : setActiveTab(tab)
    \/ \E closure \in BagToSet(uploads), file \in CatalogsOf(Prices, MaxItems) :
           onload(closure, file)
    \/ \E value \in PointsPerDollarInputs : handleConfigChange("pointsPerDollar", value)
    \/ \E value \in CogsMarginInputs : handleConfigChange("cogsMargin", value)
    \/ \E value \in PaybackRateInputs : handleConfigChange("defaultPaybackRate", value)
    \/ calculateResultsEnhanced
    \/ calculateResults
    \/ handleSignOut

SpecConfig == InitUploading /\ [][NextConfig]_vars

\* A step of handleConfigChange, from any of the three inputs
ConfigChangeStep ==
    \/ \E value \in PointsPerDollarInputs : handleConfigChange("pointsPerDollar", value)
    \/ \E value \in CogsMarginInputs : handleConfigChange("cogsMargin", value)
    \/ \E value \in PaybackRateInputs \cup PaybackRateInputsWithZero :
           handleConfigChange("defaultPaybackRate", value)

\* C14: results change only by a calculation or by the reset; a change of
\* pointsPerDollar, cogsMargin or the payback rate, and the effect and the
\* tier regeneration it brings, leave results as they are.
C14_ResultsChangeOnlyByCalculation ==
    [][/\ results' # results => (CalculationStep \/ handleSignOut)
       /\ (ConfigChangeStep \/ RunEffect) => results' = results]_vars

\* C14 witness: results calculated at 100 points per dollar and a payback
\* rate of 5, still there with pointsPerDollar 10 and payback rate 7 and
\* the tiers recomputed for them
C14_Witness ==
    /\ config.pointsPerDollar = Num(10)
    /\ config.defaultPaybackRate = Num(7)
    /\ ~EffectPending
    /\ tiersFrom = "config"
    /\ \E i \in DOMAIN results :
           /\ results[i].retailPrice = Q(7, 2)
           /\ results[i].tierPayback = Num(5)
           /\ results[i].pointCost = Num(7000)
    /\ \E k \in DOMAIN tiers : tiers[k].suggestedPointCost = Num(500)

\* C15: when pointsPerDollar or the payback rate changes while there are
\* tiers, every tier's suggestedPointCost becomes
\* round((avgPrice / (paybackRate / 100)) * pointsPerDollar) for the mean
\* price of its members and the new configuration, by the one formula of
\* tier generation for both parameters.
C15_ConfigChangeRecomputesByGenerationFormula ==
    (tiersFrom \in {"config", "withConfig"} /\ ~EffectPending) =>
        \A k \in DOMAIN tiers :
            tiers[k].suggestedPointCost =
                SuggestedPointCost(MeanPrice(tiers[k].items),
                                   config.defaultPaybackRate, config.pointsPerDollar)

\* C16: a tier whose suggestedPointCost updateTierPoints has overridden
\* keeps it through a later configuration change and the effect that
\* follows, unless the change regenerates the whole tier set.
C16_ConfigChangeKeepsOverriddenPoints ==
    [][(ConfigChangeStep \/ RunEffect) =>
          \A k \in DOMAIN tiers :
              (tiers[k].manual /\ k \in DOMAIN tiers' /\ tiers'[k].manual)
              => tiers'[k].suggestedPointCost = tiers[k].suggestedPointCost]_vars

-----------------------------------------------------------------------------
(* Regeneration after tier edits.                                          *)

\* Regeneration by every one of its five entries, after edits of the
\* tiers.  A second file is chosen before the first calculation, while no
\* upload is being read; the first row is the one toggled; the tabs
\* visited are those that hold the buttons.
NextRegen ==
    \/ RunEffect
    \/ \E tab \in {"setup", "items", "tiers"} : setActiveTab(tab)
    \/ Len(results) = 0 /\ uploads = EmptyBag /\ handleFileUpload(MaxUploads)
    \/ \E closure \in BagToSet(uploads), file \in CatalogsOf(Prices, MaxItems) :
           onload(closure, file)
    \/ Len(items) > 0 /\ toggleItem(items[1].id, ~items[1].enabled)
    \/ EnableAll
    \/ RegenerateTiers
    \/ ResetToAutoGenerated
    \/ \E i \in DOMAIN tiers : updateTierPoints(tiers[i].id, Text3000)
    \/ calculateResultsEnhanced

SpecRegen == InitUploading /\ [][NextRegen]_vars

\* C17: a full regeneration (Regenerate Tiers, Reset to Auto-Generated,
\* toggleItem, Enable All, catalog upload) replaces the whole tier set and
\* drops the manual edits: the tier set is then, and after the effects
\* that follow, the one of the run in which no updateTierPoints was made.
C17_RegenerationDiscardsEdits ==
    Generated =>
        /\ tiers = uneditedTiers
        /\ \A k \in DOMAIN tiers : ~tiers[k].manual

\* C17 witness: the first tier was edited to 3000 points, as the results
\* calculated then still tell, and the tiers were regenerated after that
\* calculation: the edit is gone and the tier is the generator's
C17_Witness ==
    /\ Generated
    /\ regenerated
    /\ ~EffectPending
    /\ \E i \in DOMAIN results :
           /\ results[i].tierId = 1
           /\ results[i].tierSuggestedCost = Num(3000)
    /\ Len(tiers) = 2
    /\ tiers[1].name = TierLabel(1)
    /\ tiers[1].suggestedPointCost = Num(7000)

-----------------------------------------------------------------------------
(* Repeated calculation and the items calculated, checked under SpecItems. *)

\* A step of calculateResults that passes its early return
CalculateResultsDone ==
    calculateResults /\ Len(IncludedOf(items)) > 0 /\ Len(tiers) > 0

\* A step of calculateResultsEnhanced that passes its early return
CalculateResultsEnhancedDone ==
    calculateResultsEnhanced /\ Len(EnabledOf(items)) > 0

\* C18: a per-item calculation run again right after itself, with items,
\* tiers and configuration as the first run left them, goes through and
\* gives the results of the first run: the same rows with the same values
\* in the same order.
C18_CalculationIsIdempotent ==
    /\ calculatedBy = "calculateResults" =>
           Len(IncludedOf(items)) > 0 /\ Len(tiers) > 0 /\ results = CalculatedResults
    /\ calculatedBy = "calculateResultsEnhanced" =>
           Len(EnabledOf(items)) > 0 /\ results = CalculatedResultsEnhanced

\* C18 witness: two results of calculateResults, sorted by point cost
\* against the order of the catalog, which calculating again reproduces
C18_Witness ==
    /\ Len(results) = 2
    /\ "netBenefit" \in DOMAIN results[1]
    /\ results[1].id = 2 /\ results[2].id = 1
    /\ Lt(results[1].pointCost, results[2].pointCost)
    /\ calculatedBy = "calculateResults"
    /\ activeTab = "results"
    /\ Interactive

\* The ids of the rows of a sequence of items or results, with their
\* numbers of occurrences
IdsOf(rows) == [id \in {rows[i].id : i \in DOMAIN rows} |->
                   Cardinality({i \in DOMAIN rows : rows[i].id = id})]

\* C19: after a per-item calculation that went through, by either entry
\* point, the results hold exactly one row for every item included in
\* calculations at that moment and no row for an excluded item.
C19_ResultsAreTheIncludedItems ==
    [][(CalculateResultsDone \/ CalculateResultsEnhancedDone) =>
          IdsOf(results') = IdsOf(IncludedOf(items))]_vars

-----------------------------------------------------------------------------
(* The end of a session.                                                   *)

\* Sessions from the first login on: uploads, a changed margin, a
\* calculation, and the session ended by the user or by the expiry of the
\* token
NextSession ==
    \/ RunEffect
    \/ handleLogin
    \/ tokenExpired
    \/ handleSignOut
    \/ \E tab \in TabIds : setActiveTab(tab)
    \/ handleFileUpload(MaxUploads)
    \/ \E closure \in BagToSet(uploads), file \in CatalogsOf(Prices, MaxItems) :
           onload(closure, file)
    \/ \E value \in CogsMarginInputs : handleConfigChange("cogsMargin", value)
    \/ calculateResultsEnhanced

SpecSession == Init /\ [][NextSession]_vars

\* C20: when the periodic check finds the session expired, configuration,
\* catalog, tier set and result set are cleared in that one step: in the
\* state after it (and so after a later login) items, tiers and results are
\* empty and the configuration has its default values.
C20_ExpiryClearsTheCalculator ==
    [][tokenExpired => /\ items' = <<>>
                       /\ tiers' = <<>>
                       /\ results' = <<>>
                       /\ config' = DefaultConfig]_vars

-----------------------------------------------------------------------------
(* The mark of a modified row, checked under SpecLive.                     *)

\* C21: a row of the tier-based view and of the tier CSV, whose tier is the
\* one the item was assigned, is marked as modified (EDITED, Points
\* Modified = Yes) exactly when that tier's suggestedPointCost differs from
\* its last auto-generated value: the mark stays after a calculation made
\* after the edit and is absent when an edit restores the generated value.
C21_ModifiedMarkTellsEdits ==
    ~regenerated =>
        \A i \in DOMAIN results : \A k \in DOMAIN tiers :
            (tiers[k].id = results[i].tierId /\ CurrentTierIndex(results[i]) = k) =>
                LET modified == tiers[k].suggestedPointCost #
                                    uneditedTiers[k].suggestedPointCost
                IN  /\ TierViewRow(results[i]).edited <=> modified
                    /\ TierCsvRow(results[i]).edited <=> modified

-----------------------------------------------------------------------------
(* The two per-item calculations compared, checked under SpecConfig.       *)

\* C22: one margin convention: for an item both calculations take, with
\* the same customer spend, calculateResults and calculateResultsEnhanced
\* give the same profitFromSpend and the same profitImpact, and the profit
\* is the spend times (100 - cogsMargin) / 100 as in the tier-based variant.
C22_OneMarginConvention ==
    (Interactive /\ Len(tiers) > 0) =>
        \A i \in DOMAIN items :
            (items[i].included /\ items[i].enabled) =>
                LET perItem  == ResultOf(items[i])
                    enhanced == ResultEnhanced(items[i])
                IN  perItem.customerSpendRequired = enhanced.customerSpendRequired =>
                        /\ perItem.profitFromSpend = enhanced.profitFromSpend
                        /\ perItem.profitImpact = enhanced.profitImpact
                        /\ perItem.profitFromSpend =
                               Times(perItem.customerSpendRequired,
                                     Over(Minus(Num(100), config.cogsMargin), Num(100)))

-----------------------------------------------------------------------------
(* The tier of an item, checked under SpecItems.                           *)

\* The first tier, in the order of the collection, whose range holds the
\* price, the last tier's range having no upper end; the last tier when
\* no range holds it
ContainingTier(price) ==
    LET Holds(k) == /\ Le(tiers[k].minPrice, price)
                    /\ (k = Len(tiers) \/ Le(price, tiers[k].maxPrice))
        k == FirstIndex([j \in DOMAIN tiers |-> Holds(j)])
    IN  IF k # 0 THEN tiers[k] ELSE tiers[Len(tiers)]

-----------------------------------------------------------------------------
(* The names the effect gives to tiers.                                    *)

\* Prices of the uploaded rows: at the effect's payback of 7 a tier of one
\* item priced 0.07 costs pointsPerDollar points, one priced 14 costs 200
\* times that
NamePrices == {Q(7, 100), Num(14)}

\* Values typed into the Points per Dollar input: the ends of the five
\* brackets of roundToNiceNumber and the halves between two multiples
NamePointsPerDollar ==
    {Num(n) : n \in {0, 24, 25, 26, 74, 75, 100, 499, 500, 549, 550, 999, 1000,
                     1249, 1250, 4999, 5000, 5499, 5500, 9999, 10000, 12499, 12500}}

NextNames ==
    \/ RunEffect
    \/ setActiveTab("setup")
    \/ \E closure \in BagToSet(uploads), file \in CatalogsOf(NamePrices, MaxItems) :
           onload(closure, file)
    \/ \E value \in NamePointsPerDollar : handleConfigChange("pointsPerDollar", value)

SpecNames == InitUploading /\ [][NextNames]_vars

\* The multiple a point cost is rounded to
NiceStep(p) ==
    IF p >= 10000 THEN 5000
    ELSE IF p >= 5000 THEN 1000
    ELSE IF p >= 1000 THEN 500
    ELSE IF p >= 500 THEN 100
    ELSE 50

\* r is the multiple of step nearest to p, the upper one of two as near
IsNearestMultiple(r, p, step) ==
    /\ r % step = 0
    /\ 2 * Abs(r - p) <= step
    /\ 2 * Abs(r - p) = step => r > p

\* C24: roundToNiceNumber(p), for an integer p >= 0, is p rounded to the
\* nearest 5000 when p >= 10000, 1000 when 5000 <= p < 10000, 500 when
\* 1000 <= p < 5000, 100 when 500 <= p < 1000 and 50 otherwise, halves
\* going up; a tier named from its point cost carries this value (20000
\* for a point cost of 20000).
C24_TierNamesAreNiceNumbers ==
    \A k \in DOMAIN tiers :
        tiers[k].name.label = "Points" =>
            LET p == tiers[k].suggestedPointCost
                r == tiers[k].name.num
            IN  /\ IsInteger(p) /\ p.n >= 0
                /\ r = roundToNiceNumber(p)
                /\ IsInteger(r)
                /\ IsNearestMultiple(r.n, p.n, NiceStep(p.n))

\* C24 witness: a tier of 20000 points named "20000 Points" beside a tier
\* of 100 points named "100 Points"
C24_Witness ==
    /\ Len(tiers) = 2
    /\ tiers[1].suggestedPointCost = Num(100)
    /\ tiers[1].name = PointsLabel(Num(100))
    /\ tiers[2].suggestedPointCost = Num(20000)
    /\ tiers[2].name = PointsLabel(Num(20000))

-----------------------------------------------------------------------------
(* Tier generation as a function of its inputs, checked under SpecRegen.   *)

\* The tier set a first upload of the enabled items ends with under the
\* configuration there is: the generator's tiers, then the effect that the
\* change of tiers.length from 0 sets off
TiersOfFirstUpload ==
    LET generated == generateAutomaticTiers(EnabledOf(items), ClosureOf(config))
    IN  [k \in DOMAIN generated |-> EffectTier(generated[k])]

\* C25: tier generation is a function of the enabled items and the
\* configuration only: every history that ends with a tier generation over
\* the same enabled items under the same configuration ends, once effects
\* have run, with the tier set a first upload of these items ends with,
\* names, payback rates and suggested point costs included.
C25_GenerationDependsOnItemsAndConfigOnly ==
    (Generated /\ ~EffectPending) => tiers = TiersOfFirstUpload

-----------------------------------------------------------------------------
(* The two flags of an item, checked under SpecItems.                      *)

\* C26: in every reachable state the two inclusion flags of every item
\* agree, so calculateResults (filter on included) takes the items that
\* tier generation and calculateResultsEnhanced (filter on enabled) take.
C26_InclusionFlagsAgree ==
    /\ \A i \in DOMAIN items : items[i].included = items[i].enabled
    /\ IncludedOf(items) = EnabledOf(items)

-----------------------------------------------------------------------------
(* The tier set and the catalog, checked under SpecRegen.                  *)

\* C27: in every reachable state the tier set is in step with the catalog:
\* it is empty exactly when no item is enabled, and otherwise the price
\* ranges and the member items of its tiers are those generated from the
\* items enabled now.
C27_TiersInStepWithCatalog ==
    LET generated == generateAutomaticTiers(EnabledOf(items), ClosureOf(config))
    IN  /\ Len(tiers) = 0 <=> Len(EnabledOf(items)) = 0
        /\ Len(tiers) > 0 =>
               /\ Len(tiers) = Len(generated)
               /\ \A k \in DOMAIN tiers :
                      /\ tiers[k].minPrice = generated[k].minPrice
                      /\ tiers[k].maxPrice = generated[k].maxPrice
                      /\ tiers[k].items = generated[k].items

-----------------------------------------------------------------------------
(* The payback rate of the tiers, checked under SpecConfig.                *)

\* C28: in every state the user can act in, every tier's paybackRate is
\* the payback rate set in the configuration (config.defaultPaybackRate),
\* so calculateResults computes the customer spend of every included item
\* from the configured rate.
C28_TiersCarryTheConfiguredPayback ==
    Interactive =>
        /\ \A k \in DOMAIN tiers : tiers[k].paybackRate = config.defaultPaybackRate
        /\ Len(tiers) > 0 =>
               \A i \in DOMAIN items :
                   items[i].included =>
                       ResultOf(items[i]).customerSpendRequired =
                           Over(items[i].retailPrice,
                                Over(config.defaultPaybackRate, Num(100)))

-----------------------------------------------------------------------------
(* Uploads that complete after the configuration changed.                  *)

\* One upload after another and two at a time, with Points per Dollar and
\* the payback rate changed while a file is being read
NextUpload ==
    \/ RunEffect
    \/ setActiveTab("setup")
    \/ handleFileUpload(MaxUploads + 1)
    \/ \E closure \in BagToSet(uploads), file \in CatalogsOf(Prices, MaxItems) :
           onload(closure, file)
    \/ \E closure \in BagToSet(uploads) : onloadRejected(closure)
    \/ \E value \in PointsPerDollarInputs : handleConfigChange("pointsPerDollar", value)
    \/ \E value \in PaybackRateInputs : handleConfigChange("defaultPaybackRate", value)

SpecUpload == InitUploading /\ [][NextUpload]_vars

\* C29: the tier set that the completion of an upload generates is
\* computed from the configuration current at completion: once effects
\* have run, and while the configuration has not changed since, every
\* tier's suggestedPointCost is what the generator or the effect computes
\* from the configuration there is, also when pointsPerDollar or the
\* payback rate changed between the start of the upload and its completion.
C29_UploadUsesTheConfigurationAtCompletion ==
    (tiersFrom = "items" /\ ~EffectPending) =>
        \A k \in DOMAIN tiers :
            \/ tiers[k].suggestedPointCost =
                   SuggestedPointCost(tiers[k].avgPrice, config.defaultPaybackRate,
                                      config.pointsPerDollar)
            \/ tiers[k].suggestedPointCost = EffectTier(tiers[k]).suggestedPointCost

-----------------------------------------------------------------------------
(* The active tab, checked under SpecSession.                              *)

\* C30: activeTab is one of the five tab ids of the tab bar, so that a
\* logged-in user always sees the content of a tab, after any tab clicks,
\* uploads, calculations, sign-outs and logins.
C30_ActiveTabIsATab ==
    isLoggedIn => activeTab \in TabIds

=============================================================================
